---- MODULE Spec2Model ----
(***************************************************************************)
(* Model of pageCrawler (src/background.js): the in-page crawler that      *)
(* collects .gif URLs from the current DOM and from linked pages.          *)
(*                                                                         *)
(* Strings are sequences of tokens (a token is a short piece of text), so  *)
(* that split, endsWith, toLowerCase and URL parsing are computed on the   *)
(* text, as the code computes them.                                        *)
(***************************************************************************)
EXTENDS Integers, Sequences, FiniteSets, TLC

(***************************************************************************)
(* String primitives.                                                      *)
(***************************************************************************)

\* position of the first token of s that is in set, Len(s) + 1 when none
IndexOfFirst(s, set) ==
    IF \E i \in 1..Len(s) : s[i] \in set
    THEN CHOOSE i \in 1..Len(s) : s[i] \in set /\ \A j \in 1..(i - 1) : s[j] \notin set
    ELSE Len(s) + 1

\* position of the last token of s that is in set, 0 when none
IndexOfLast(s, set) ==
    IF \E i \in 1..Len(s) : s[i] \in set
    THEN CHOOSE i \in 1..Len(s) : s[i] \in set /\ \A j \in (i + 1)..Len(s) : s[j] \notin set
    ELSE 0

\* s.split(sep)[0]
SplitFirst(s, sep) == SubSeq(s, 1, IndexOfFirst(s, {sep}) - 1)

\* s.endsWith(suf)
EndsWith(s, suf) ==
    /\ Len(suf) <= Len(s)
    /\ SubSeq(s, Len(s) - Len(suf) + 1, Len(s)) = suf

\* one token lower-cased
LowerTok(t) ==
    CASE t = ".GIF" -> ".gif"
      [] t = "WWW" -> "www"
      [] OTHER -> t

\* s.toLowerCase()
ToLowerCase(s) == [i \in 1..Len(s) |-> LowerTok(s[i])]

(***************************************************************************)
(* new URL(input, base): the WHATWG URL parser on token strings.           *)
(***************************************************************************)

HttpSchemes == {"http://", "https://"}
\* the schemes whose URLs have a host and a tuple origin
HostSchemes == HttpSchemes \cup {"ftp://"}
PortToks == {":8080"}

\* the record a failed parse (a TypeError in the code) is modelled by
BadURL == [ok |-> FALSE, scheme |-> "", hostname |-> <<>>, port |-> <<>>,
           path |-> <<>>, query |-> <<>>, frag |-> <<>>]

\* percent-encoding of the path and query tokens that need it
EncTok(t) == IF t = "\"" THEN "%22" ELSE t
Encode(s) == [i \in 1..Len(s) |-> EncTok(s[i])]

\* path, query ("?..." or empty) and fragment ("#..." or empty) of the text
\* that follows the authority
SplitRest(s) ==
    LET pEnd == IndexOfFirst(s, {"?", "#"})
        rest == SubSeq(s, pEnd, Len(s))
        qEnd == IndexOfFirst(rest, {"#"})
    IN  [path  |-> Encode(SubSeq(s, 1, pEnd - 1)),
         query |-> Encode(SubSeq(rest, 1, qEnd - 1)),
         frag  |-> SubSeq(rest, qEnd, Len(rest))]

\* an absolute URL of a scheme with a host
ParseAbs(s) ==
    LET rest == Tail(s)
        aEnd == IndexOfFirst(rest, {"/", "?", "#"})
        auth == SubSeq(rest, 1, aEnd - 1)
        hasPort == Len(auth) > 0 /\ auth[Len(auth)] \in PortToks
        host == IF hasPort THEN SubSeq(auth, 1, Len(auth) - 1) ELSE auth
        r == SplitRest(SubSeq(rest, aEnd, Len(rest)))
    IN  IF Len(host) = 0 THEN BadURL
        ELSE [ok |-> TRUE, scheme |-> s[1], hostname |-> ToLowerCase(host),
              port |-> IF hasPort THEN <<auth[Len(auth)]>> ELSE <<>>,
              path |-> IF Len(r.path) = 0 THEN <<"/">> ELSE r.path,
              query |-> r.query, frag |-> r.frag]

\* a URL of a non-special scheme (javascript:, mailto:): opaque path
ParseOpaque(s) ==
    [ok |-> TRUE, scheme |-> s[1], hostname |-> <<>>, port |-> <<>>,
     path |-> Tail(s), query |-> <<>>, frag |-> <<>>]

OpaqueSchemes == {"javascript:", "mailto:"}

\* base path up to and including its last "/", followed by the relative path
MergePath(basePath, rel) == SubSeq(basePath, 1, IndexOfLast(basePath, {"/"})) \o rel

\* new URL(input, base) where base is the text of an http(s) URL
ParseURL(input, base) ==
    LET b == ParseAbs(base)
        r == SplitRest(input)
    IN  IF Len(input) > 0 /\ input[1] \in HostSchemes THEN ParseAbs(input)
        ELSE IF Len(input) > 0 /\ input[1] \in OpaqueSchemes THEN ParseOpaque(input)
        ELSE IF ~b.ok THEN BadURL
        ELSE IF Len(input) = 0 THEN [b EXCEPT !.frag = <<>>]
        ELSE IF input[1] = "#" THEN [b EXCEPT !.frag = r.frag]
        ELSE IF input[1] = "?" THEN [b EXCEPT !.query = r.query, !.frag = r.frag]
        ELSE IF input[1] = "/" THEN [b EXCEPT !.path = r.path, !.query = r.query, !.frag = r.frag]
        ELSE [b EXCEPT !.path = MergePath(b.path, r.path), !.query = r.query, !.frag = r.frag]

\* URL.href
Href(u) == <<u.scheme>> \o u.hostname \o u.port \o u.path \o u.query \o u.frag

\* URL.origin
Origin(u) == IF u.scheme \in HostSchemes THEN <<u.scheme>> \o u.hostname \o u.port ELSE <<"null">>

(***************************************************************************)
(* Documents.  A document has its img elements (each with or without a src *)
(* attribute), the href attributes of its a[href] elements, and the        *)
(* style.backgroundImage text of its *[style] elements.                    *)
(***************************************************************************)

Img(src) == [has |-> TRUE, src |-> src]
ImgNoSrc == [has |-> FALSE, src |-> <<>>]
EmptyDoc == [images |-> <<>>, anchors |-> <<>>, styles |-> <<>>]

\* img.src: the src attribute resolved by the DOM against the URL of the
\* element's document (the attribute itself when that fails, "" when absent)
ImgSrc(img, docURL) ==
    IF ~img.has THEN <<>>
    ELSE LET u == ParseURL(img.src, docURL)
         IN  IF u.ok THEN Href(u) ELSE img.src

\* x.toLowerCase().split('?')[0].endsWith('.gif')
IsGif(h) == EndsWith(SplitFirst(ToLowerCase(h), "?"), <<".gif">>)

\* push(x) on an array
SetAddArray(s, x) == Append(s, x)

\* results.add(x) on a Set, which keeps insertion order
SetAdd(s, x) == IF \E i \in 1..Len(s) : s[i] = x THEN s ELSE Append(s, x)

\* one candidate of collectFromDoc: new URL(cand, baseURL).href, added when
\* it passes the filter; a parse failure is caught and skipped
AddCandidate(res, cand, baseURL) ==
    LET u == ParseURL(cand, baseURL)
    IN  IF u.ok /\ IsGif(Href(u)) THEN SetAdd(res, Href(u)) ELSE res

QuoteToks == {"'", "\""}
NotInBody == {"'", "\"", ")"}

\* /url\\((['"]?)([^'")]+)\\1\\)/ matched at position i with q quote tokens
\* and n body tokens: "url", a backslash, the group, then backslash 1 backslash
MatchAt(m, i, q, n) ==
    /\ i + q + n + 4 <= Len(m)
    /\ m[i] = "url"
    /\ m[i + 1] = "\\"
    /\ q = 1 => m[i + 2] \in QuoteToks
    /\ \A k \in 1..n : m[i + 1 + q + k] \notin NotInBody
    /\ m[i + q + n + 2] = "\\"
    /\ m[i + q + n + 3] = "1"
    /\ m[i + q + n + 4] = "\\"

MatchesAt(m, i, q) == \E n \in 1..Len(m) : MatchAt(m, i, q, n)

\* the regex of line 110 executed on m: whether it matches, and urlMatch[2]
\* (the second capture group, which is the optional quote)
RegexExec(m) ==
    LET starts == {i \in 1..Len(m) : MatchesAt(m, i, 0) \/ MatchesAt(m, i, 1)}
        i0 == CHOOSE i \in starts : \A j \in starts : i <= j
    IN  IF starts = {} THEN [found |-> FALSE, g2 |-> <<>>]
        ELSE [found |-> TRUE, g2 |-> IF MatchesAt(m, i0, 1) THEN <<m[i0 + 2]>> ELSE <<>>]

\* the background-image surface of one styled element
AddBackground(res, m, baseURL) ==
    LET urlMatch == RegexExec(m)
    IN  IF urlMatch.found THEN AddCandidate(res, urlMatch.g2, baseURL) ELSE res

RECURSIVE AddImages(_, _, _, _)
AddImages(res, imgs, baseURL, docURL) ==
    IF imgs = <<>> THEN res
    ELSE AddImages(AddCandidate(res, ImgSrc(Head(imgs), docURL), baseURL),
                   Tail(imgs), baseURL, docURL)

RECURSIVE AddAnchors(_, _, _)
AddAnchors(res, as, baseURL) ==
    IF as = <<>> THEN res
    ELSE AddAnchors(AddCandidate(res, Head(as), baseURL), Tail(as), baseURL)

RECURSIVE AddStyles(_, _, _)
AddStyles(res, ms, baseURL) ==
    IF ms = <<>> THEN res
    ELSE AddStyles(AddBackground(res, Head(ms), baseURL), Tail(ms), baseURL)

\* collectFromDoc(doc, baseURL) applied to the results set res; docURL is the
\* URL of doc itself (location.href, also for a document made by DOMParser)
CollectFromDoc(res, doc, baseURL, docURL) ==
    AddStyles(AddAnchors(AddImages(res, doc.images, baseURL, docURL),
                         doc.anchors, baseURL),
              doc.styles, baseURL)

(***************************************************************************)
(* Scope.                                                                  *)
(***************************************************************************)

\* hostParts.slice(-2).join('.')
BaseDomainOf(host) ==
    LET dots == {i \in 1..Len(host) : host[i] = "."}
        cut == CHOOSE i \in dots : Cardinality({j \in dots : j >= i}) = 2
    IN  IF Cardinality(dots) < 2 THEN host ELSE SubSeq(host, cut + 1, Len(host))

\* the separating dot left out
IsSubdomainOfNoDot(hostname, baseDomain) == EndsWith(hostname, baseDomain)

\* hostname.endsWith('.' + baseDomain)
IsSubdomainOf(hostname, baseDomain) == EndsWith(hostname, <<".">> \o baseDomain)

\* isInScope(urlObj) for the crawl started at startURL
IsInScope(u, startURL, inclSub) ==
    LET loc == ParseAbs(startURL)
        baseDomain == BaseDomainOf(loc.hostname)
    IN  \/ Origin(u) = Origin(loc)
        \/ /\ inclSub
           /\ \/ u.hostname = baseDomain
              \/ IsSubdomainOf(u.hostname, baseDomain)

\* the fragment kept
NormalizeKeepsFragment(h) == h

\* hrefObj.href.split('#')[0]
Normalize(h) == SplitFirst(h, "#")

(***************************************************************************)
(* The sites crawled: the start page's URL and document, and the document  *)
(* served at each URL.                                                     *)
(***************************************************************************)

Sites == {"A", "B", "C"}

WWW == <<"http://", "www", ".", "example", ".", "com">>
STATIC == <<"http://", "static", ".", "example", ".", "com">>
APEX == <<"http://", "example", ".", "com", ":8080">>

\* location.href of the start page
Location(s) ==
    IF s = "A" THEN WWW \o <<"/", "dir", "/", "index", ".html", "#", "top">>
    ELSE IF s = "B" THEN APEX \o <<"/">>
    ELSE WWW \o <<"/", "c", "/">>

\* style.backgroundImage as the CSSOM serialises it
BgPlain == <<"url", "(", "\"", "/", "bg", ".gif", "\"", ")">>
BgBackslash == <<"url", "(", "\"", "x", "url", "\\", "\\", "y", "\\", "\\", "1", "\\", "\\", "z", "\"", ")">>

StartDocA ==
    [images  |-> << Img(<<"/", "img", "/", "a", ".GIF", "?", "v=2">>),
                    Img(<<"pic", ".gif">>),
                    ImgNoSrc >>,
     anchors |-> << <<"/", "page2">>,
                    STATIC \o <<"/", "s">>,
                    <<"ftp://", "static", ".", "example", ".", "com", "/", "f">>,
                    <<"/", "page2", "#", "sec">>,
                    <<"/", "page", "#", "x", ".gif">>,
                    <<"b", ".gif", "#", "frag">>,
                    <<"http://", "not", "example", ".", "com", "/", "n">>,
                    <<"http://", "example", ".", "org", "/", "o", ".gif">>,
                    <<"javascript:", "void(0)">>,
                    <<"http://">> >>,
     styles  |-> << BgPlain >>]

StartDocB ==
    [images  |-> << Img(<<"x", ".GIF", "#", "v">>),
                    Img(<<"/", "y", ".gif", "?", "a", "?", "b">>) >>,
     anchors |-> << <<"#", "top">>,
                    <<"?", "page=2">>,
                    <<"http://", "example", ".", "com", "/", "p">>,
                    <<"http://", "WWW", ".", "example", ".", "com", ":8080", "/", "q", "#", "f">>,
                    <<"https://", "example", ".", "com", ":8080", "/", "r">>,
                    <<"mailto:", "x">> >>,
     styles  |-> << >>]

StartDocC ==
    [images  |-> << >>,
     anchors |-> << <<"a">>, <<"b", "#", "x">>, <<"a", "#", "again">> >>,
     styles  |-> << >>]

\* the documents the server of site A has, by URL
PagesA ==
    (WWW \o <<"/", "page2">> :>
        [images  |-> << Img(<<"pic2", ".gif">>) >>,
         anchors |-> << <<"b", ".gif">>, <<"/", "page3">>,
                        <<"/", "dir", "/", "index", ".html", "#", "again">>,
                        <<"/", "page2">> >>,
         styles  |-> << BgBackslash >>])
    @@ (WWW \o <<"/", "page3">> :>
        [images  |-> << >>,
         anchors |-> << <<"/", "page2">>, <<"/", "page4">>, <<"/", "c", ".GIF">> >>,
         styles  |-> << >>])
    @@ (WWW \o <<"/", "page4">> :>
        [images  |-> << Img(<<"/", "img", "/", "d", ".gif">>) >>,
         anchors |-> << <<"/", "page5">> >>,
         styles  |-> << >>])
    @@ (WWW \o <<"/", "page">> :>
        [images  |-> << >>,
         anchors |-> << <<"/", "page3">> >>,
         styles  |-> << BgPlain >>])
    @@ (WWW \o <<"/", "dir", "/", "b", ".gif">> :>
        [images  |-> << ImgNoSrc >>,
         anchors |-> << >>,
         styles  |-> << BgBackslash >>])
    @@ (WWW \o <<"/", "dir", "/", "index", ".html">> :> StartDocA)
    @@ (STATIC \o <<"/", "s">> :>
        [images  |-> << Img(<<"/", "s", ".gif">>) >>,
         anchors |-> << WWW \o <<"/", "page3">>, <<"/", "t">> >>,
         styles  |-> << >>])

\* the documents the server of site B has, by URL
PagesB ==
    (APEX \o <<"/">> :> StartDocB)
    @@ (APEX \o <<"/", "?", "page=2">> :>
        [images  |-> << >>,
         anchors |-> << <<"?", "page=3">>, <<"z", ".gif">> >>,
         styles  |-> << >>])
    @@ (APEX \o <<"/", "?", "page=3">> :>
        [images  |-> << Img(<<"w", ".gif">>) >>,
         anchors |-> << <<"?", "page=4">> >>,
         styles  |-> << >>])
    @@ (<<"http://", "example", ".", "com", "/", "p">> :>
        [images  |-> << >>,
         anchors |-> << <<"/", "p2">>, APEX \o <<"/", "?", "page=2">> >>,
         styles  |-> << >>])

\* the documents the server of site C has, by URL
PagesC ==
    (WWW \o <<"/", "c", "/", "a">> :>
        [images  |-> << Img(<<"a", ".gif">>) >>,
         anchors |-> << <<"b">>, <<"c">>, <<"javascript:", "void(0)">> >>,
         styles  |-> << >>])
    @@ (WWW \o <<"/", "c", "/", "b">> :>
        [images  |-> << >>,
         anchors |-> << <<"a">> >>,
         styles  |-> << >>])
    @@ (WWW \o <<"/", "c", "/", "c">> :>
        [images  |-> << Img(<<"c", ".gif">>) >>,
         anchors |-> << <<"b">> >>,
         styles  |-> << >>])

Pages == [s \in Sites |-> IF s = "A" THEN PagesA ELSE IF s = "B" THEN PagesB ELSE PagesC]

\* the URL a fetch of url asks the server for: the fragment is not sent
Requested(url) == SplitFirst(url, "#")

\* the document served for url on site s; a URL the server has nothing for
\* gives an empty document
DocAt(s, url) ==
    IF Requested(url) \in DOMAIN Pages[s] THEN Pages[s][Requested(url)] ELSE EmptyDoc

StartDoc(s) == IF s = "A" THEN StartDocA ELSE IF s = "B" THEN StartDocB ELSE StartDocC

(***************************************************************************)
(* The crawl.                                                              *)
(***************************************************************************)

\* largest depth and largest page budget tried
MaxDepth == 2
MaxBudget == 4

Depths == 0..MaxDepth
\* maxPages as the caller passes it, the non-positive ones included
Budgets == (0 - 1)..MaxBudget

VARIABLES
    site,               \* which site the page the crawler is injected into is on
    depth,              \* argument depth
    includeSubdomains,  \* argument includeSubdomains
    maxPages,           \* argument maxPages
    pc,                 \* where pageCrawler is: entry, seed, loop, fetch, done
    visited,            \* Set visited
    results,            \* Set results, in insertion order
    pagesVisited,       \* counter pagesVisited
    queue,              \* array queue of {url, d}
    item,               \* the task visit() is suspended on
    fetchLog,           \* the tasks fetch() was called for, in order
    skipped,            \* the tasks dropped because their URL was visited
    outcome,            \* how the last fetch ended: none, ok, notok, throw
    returned,           \* the array pageCrawler resolves to
    pending,            \* the tasks whose fetch has not settled yet
    succeeded,          \* the URLs whose fetch gave an ok response
    other               \* a second invocation of pageCrawler in the same page,
                        \* while it is not the one running: its arguments,
                        \* position and local variables

\* the message listener of the background script
VARIABLES
    wpc,                \* where the listener is: idle, ignored, injecting, settled
    injected,           \* what executeScript resolved to: one entry per frame
    urls,               \* array urls
    started,            \* counter started
    errors,             \* array errors
    timers,             \* the setTimeout callbacks that have not run yet
    downloads,          \* the URLs chrome.downloads.download was called with, in order
    callbacks,          \* the downloads whose callback has not run yet
    responses           \* what sendResponse was called with, in order

vars == <<site, depth, includeSubdomains, maxPages, pc, visited, results,
          pagesVisited, queue, item, fetchLog, skipped, outcome, returned,
          pending, succeeded, other,
          wpc, injected, urls, started, errors, timers, downloads, callbacks, responses>>

glueVars == <<wpc, injected, urls, started, errors, timers, downloads, callbacks, responses>>

cfgVars == <<site, depth, includeSubdomains, maxPages>>

NoItem == [url |-> <<>>, d |-> 0]

\* the invocation that is running, as a record
Context ==
    [depth |-> depth, includeSubdomains |-> includeSubdomains, maxPages |-> maxPages,
     pc |-> pc, visited |-> visited, results |-> results,
     pagesVisited |-> pagesVisited, queue |-> queue, item |-> item,
     fetchLog |-> fetchLog, skipped |-> skipped, outcome |-> outcome,
     returned |-> returned, pending |-> pending, succeeded |-> succeeded]

\* an invocation that has not run yet
Fresh(dp, inclSub, max) ==
    [depth |-> dp, includeSubdomains |-> inclSub, maxPages |-> max,
     pc |-> "entry", visited |-> {}, results |-> <<>>,
     pagesVisited |-> 0, queue |-> <<>>, item |-> NoItem,
     fetchLog |-> <<>>, skipped |-> {}, outcome |-> "none",
     returned |-> <<>>, pending |-> {}, succeeded |-> {}]

\* no second invocation
NoCrawl == [Fresh(0, FALSE, 0) EXCEPT !.pc = "none"]

CrawlInit ==
    /\ site \in Sites
    /\ depth \in Depths
    /\ includeSubdomains \in BOOLEAN
    /\ maxPages \in Budgets
    /\ pc = "entry"
    /\ visited = {}
    /\ results = <<>>
    /\ pagesVisited = 0
    /\ queue = <<>>
    /\ item = NoItem
    /\ fetchLog = <<>>
    /\ skipped = {}
    /\ outcome = "none"
    /\ returned = <<>>
    /\ pending = {}
    /\ succeeded = {}

\* the listener before a message arrives
GlueIdle ==
    /\ wpc = "idle"
    /\ injected = <<>>
    /\ urls = <<>>
    /\ started = 0
    /\ errors = <<>>
    /\ timers = {}
    /\ downloads = <<>>
    /\ callbacks = {}
    /\ responses = <<>>

Init == CrawlInit /\ other = NoCrawl /\ GlueIdle

\* the test off by one: depth 0 seeds too
ShouldSeedAlways(dp) == dp >= 0

\* if (depth > 0)
ShouldSeed(dp) == dp > 0

\* queue.length && pagesVisited < maxPages
LoopCond(q, n, max) == Len(q) > 0 /\ n < max

\* if (pagesVisited >= maxPages) return
BudgetSpent(n, max) == n >= max

\* the increment left out
IncrementedStale(n) == n

\* pagesVisited++
Incremented(n) == n + 1

\* the last element removed instead of the first
ShiftedPop(q) == SubSeq(q, 1, Len(q) - 1)

\* the head read but not removed
ShiftedPeek(q) == q

\* queue.shift(): what is left of the queue
Shifted(q) == Tail(q)

\* the test off by one the other way: pages one above the last depth do
\* not expand
MayExpandEarlyStop(d, dp) == d + 1 < dp

\* the test off by one: pages at the last depth expand too
MayExpandAtLimit(d, dp) == d <= dp

\* if (currentDepth < depth)
MayExpand(d, dp) == d < dp

\* the status never looked at
NotOkIgnored(resp) == FALSE

\* if (!resp.ok) return
NotOk(resp) == ~resp.ok

\* the a[href] loop of lines 139-143 and 166-170: each href resolved against
\* baseURL, kept when it parses and is in scope, and normalized
RECURSIVE ScopedLinks(_, _, _, _)
ScopedLinks(as, baseURL, loc, inclSub) ==
    IF as = <<>> THEN <<>>
    ELSE LET hrefObj == ParseURL(Head(as), baseURL)
             rest == ScopedLinks(Tail(as), baseURL, loc, inclSub)
         IN  IF hrefObj.ok /\ IsInScope(hrefObj, loc, inclSub)
             THEN <<Normalize(Href(hrefObj))>> \o rest
             ELSE rest

\* collectFromDoc and the a[href] loop are functions of the document and
\* the configuration alone; they are tabulated here, once per page
StartGifs ==
    [s \in Sites |-> CollectFromDoc(<<>>, StartDoc(s), Location(s), Location(s))]

PageGifs ==
    [s \in Sites |-> [u \in DOMAIN Pages[s] |->
        CollectFromDoc(<<>>, Pages[s][u], u, Location(s))]]

StartLinks ==
    [s \in Sites |-> [inclSub \in BOOLEAN |->
        ScopedLinks(StartDoc(s).anchors, Location(s), Location(s), inclSub)]]

PageLinks ==
    [s \in Sites |-> [inclSub \in BOOLEAN |-> [u \in DOMAIN Pages[s] |->
        ScopedLinks(Pages[s][u].anchors, u, Location(s), inclSub)]]]

\* what collectFromDoc(doc, url) finds in the document fetched from url
GifsAt(s, url) ==
    IF Requested(url) \in DOMAIN Pages[s] THEN PageGifs[s][Requested(url)] ELSE <<>>

\* the in-scope links of the document fetched from url
LinksAt(s, inclSub, url) ==
    IF Requested(url) \in DOMAIN Pages[s] THEN PageLinks[s][inclSub][Requested(url)] ELSE <<>>

\* the Set replaced by what the last document gave
MergeReplace(res, found) == found

\* results.add of each of found, in order, on the Set res
Merge(res, found) ==
    LET IsNew(x) == \A i \in 1..Len(res) : res[i] # x
    IN  res \o SelectSeq(found, IsNew)

\* queue.push({url, d}) for each of links, in order
Tasks(links, d) == [i \in 1..Len(links) |-> [url |-> links[i], d |-> d]]

\* the links line 171 lets through: not visited and the budget not used up
Pushable(links, vis, n, max) ==
    LET Passes(l) == l \notin vis /\ n < max
    IN  SelectSeq(links, Passes)

\* the loop going on without waiting for visit
NotSuspended == "loop"

\* line 186, await visit(...): the loop stands still while visit waits for
\* its fetch
Suspended == "fetch"

\* fetch(url) can only get a response for an http(s) URL; for any other
\* scheme it rejects
Fetchable(url) == url[1] \in HttpSchemes

\* the seeding marking what it queues
SeedMarks(vis, links) == vis \cup {links[i] : i \in 1..Len(links)}

\* lines 142-145: the seeding pushes its links and adds nothing to visited
SeedVisited(vis, links) == vis

\* line 135: collectFromDoc(document, location.href)
CollectStart ==
    /\ pc = "entry"
    /\ results' = Merge(results, StartGifs[site])
    /\ pc' = "seed"
    /\ UNCHANGED <<cfgVars, other, glueVars, visited, pagesVisited, queue, item, fetchLog, skipped, outcome, returned, pending, succeeded>>

\* lines 138-148: seed the queue
Seed ==
    /\ pc = "seed"
    /\ queue' = IF ShouldSeed(depth)
                THEN queue \o Tasks(StartLinks[site][includeSubdomains], 1)
                ELSE queue
    /\ visited' = IF ShouldSeed(depth)
                  THEN SeedVisited(visited, StartLinks[site][includeSubdomains])
                  ELSE visited
    /\ pc' = "loop"
    /\ UNCHANGED <<cfgVars, other, glueVars, results, pagesVisited, item, fetchLog, skipped, outcome,
                   returned, pending, succeeded>>

\* lines 184-186 and 151: a task whose URL is already visited is dropped
Skip ==
    /\ pc = "loop"
    /\ LoopCond(queue, pagesVisited, maxPages)
    /\ Head(queue).url \in visited
    /\ queue' = Shifted(queue)
    /\ skipped' = skipped \cup {Head(queue)}
    /\ UNCHANGED <<cfgVars, other, glueVars, pc, visited, results, pagesVisited, item, fetchLog, outcome, returned, pending, succeeded>>

\* lines 184-186 and 151-158: a task is taken, marked, counted and its
\* fetch is issued; visit() then waits for the response
Visit ==
    /\ pc = "loop"
    /\ LoopCond(queue, pagesVisited, maxPages)
    /\ Head(queue).url \notin visited
    /\ queue' = Shifted(queue)
    /\ IF BudgetSpent(pagesVisited, maxPages)
       THEN UNCHANGED <<pc, visited, pagesVisited, item, fetchLog, pending>>
       ELSE /\ visited' = visited \cup {Head(queue).url}
            /\ pagesVisited' = Incremented(pagesVisited)
            /\ fetchLog' = Append(fetchLog, Head(queue))
            /\ item' = Head(queue)
            /\ pending' = pending \cup {Head(queue)}
            /\ pc' = Suspended
    /\ UNCHANGED <<cfgVars, other, glueVars, results, skipped, outcome, returned, succeeded>>

\* lines 158-160, 178-180: fetch() or resp.text() rejects
FetchThrows ==
    /\ pc = "fetch"
    /\ outcome' = "throw"
    /\ pending' = pending \ {item}
    /\ item' = NoItem
    /\ pc' = "loop"
    /\ UNCHANGED <<cfgVars, other, glueVars, visited, results, pagesVisited, queue, fetchLog, skipped,
                   returned, succeeded>>

\* lines 158-177: the response arrives, with any status
FetchResolves ==
    /\ pc = "fetch"
    /\ Fetchable(item.url)
    /\ \E ok \in BOOLEAN :
         LET resp == [ok |-> ok,
                      gifs |-> GifsAt(site, item.url),
                      links |-> LinksAt(site, includeSubdomains, item.url)]
         IN  /\ succeeded' = IF ok THEN succeeded \cup {item.url} ELSE succeeded
             /\ IF NotOk(resp)
                THEN /\ outcome' = "notok"
                     /\ UNCHANGED <<results, queue>>
                ELSE /\ outcome' = IF ok THEN "ok" ELSE "notok"
                     /\ results' = Merge(results, resp.gifs)
                     /\ queue' = IF MayExpand(item.d, depth)
                                 THEN queue \o Tasks(Pushable(resp.links, visited,
                                                              pagesVisited, maxPages),
                                                     item.d + 1)
                                 ELSE queue
    /\ pending' = pending \ {item}
    /\ item' = NoItem
    /\ pc' = "loop"
    /\ UNCHANGED <<cfgVars, other, glueVars, visited, pagesVisited, fetchLog, skipped, returned>>

\* line 189: return Array.from(results)
Return ==
    /\ pc = "loop"
    /\ ~LoopCond(queue, pagesVisited, maxPages)
    /\ returned' = results
    /\ pc' = "done"
    /\ UNCHANGED <<cfgVars, other, glueVars, visited, results, pagesVisited, queue, item, fetchLog, skipped, outcome, pending, succeeded>>

Next ==
    \/ CollectStart
    \/ Seed
    \/ Skip
    \/ Visit
    \/ FetchThrows
    \/ FetchResolves
    \/ Return

Spec == Init /\ [][Next]_vars

\* every started step of the crawler runs, and every fetch settles
FairSpec == Spec /\ WF_vars(Next)

(***************************************************************************)
(* Two invocations of pageCrawler in one page.  Each call of the function  *)
(* makes its own visited, results, pagesVisited and queue (lines 85-87 and *)
(* 132); the page's single thread runs one invocation at a time and can    *)
(* turn to the other when the running one waits for its fetch or is done.  *)
(***************************************************************************)

\* the arguments of the second invocation
PairConfigs ==
    {Fresh(1, FALSE, 2), Fresh(2, FALSE, 3), Fresh(2, TRUE, 3)}

\* a variable declared at module level, one for all invocations
LocalShared(own, running) == running

\* a const or let declared inside pageCrawler: the invocation that resumes
\* finds its own
Local(own, running) == own

PairInit == CrawlInit /\ other \in PairConfigs /\ GlueIdle

\* the running invocation waits or is done, and the other one goes on
Switch ==
    /\ pc \in {"fetch", "done"}
    /\ other.pc \notin {"none", "done"}
    /\ other' = Context
    /\ depth' = other.depth
    /\ includeSubdomains' = other.includeSubdomains
    /\ maxPages' = other.maxPages
    /\ pc' = other.pc
    /\ visited' = Local(other.visited, visited)
    /\ results' = Local(other.results, results)
    /\ pagesVisited' = Local(other.pagesVisited, pagesVisited)
    /\ queue' = Local(other.queue, queue)
    /\ item' = other.item
    /\ fetchLog' = other.fetchLog
    /\ skipped' = other.skipped
    /\ outcome' = other.outcome
    /\ returned' = other.returned
    /\ pending' = other.pending
    /\ succeeded' = other.succeeded
    /\ UNCHANGED <<site, glueVars>>

PairNext == Next \/ Switch

PairSpec == PairInit /\ [][PairNext]_vars

(***************************************************************************)
(* The message listener of the background script, lines 2-71.  What the    *)
(* injected crawler returns reaches it as the value executeScript resolves *)
(* to, one entry per frame; the crawler's own steps are not part of this   *)
(* specification.                                                          *)
(***************************************************************************)

G1 == <<"http://", "a", ".", "com", "/", "1", ".gif">>
G2 == <<"http://", "a", ".", "com", "/", "2", ".gif">>
G3 == <<"http://", "b", ".", "com", "/", "3", ".gif">>

\* a frame whose entry has no result array
NoResult == [isArray |-> FALSE, result |-> <<>>]
FrameResult(list) == [isArray |-> TRUE, result |-> list]

\* the entries executeScript can resolve to for one frame
FrameValues ==
    {NoResult, FrameResult(<<>>), FrameResult(<<G1>>), FrameResult(<<G2, G1>>),
     FrameResult(<<G1, G2, G3>>), FrameResult(<<G3, G3>>)}

\* largest number of frames
MaxFrames == 2

InjectionResults == UNION {[1..n -> FrameValues] : n \in 1..MaxFrames}

\* msg.action and msg.tabId
Actions == {"collect_gifs", "ping"}
TabIds == {0, 7}

\* lines 14-17: urls.concat(r.result) for each frame that has a result array
RECURSIVE Concat(_)
Concat(frames) ==
    IF frames = <<>> THEN <<>>
    ELSE (IF Head(frames).isArray THEN Head(frames).result ELSE <<>>) \o Concat(Tail(frames))

\* the array kept as it is
DedupeNone(list) == list

\* line 18: Array.from(new Set(urls)), the first occurrence of each kept
RECURSIVE Dedupe(_)
Dedupe(list) ==
    IF list = <<>> THEN <<>>
    ELSE LET front == SubSeq(list, 1, Len(list) - 1)
             last == list[Len(list)]
         IN  IF \E i \in 1..Len(front) : front[i] = last
             THEN Dedupe(front)
             ELSE Append(Dedupe(front), last)

\* line 48
GapMs == 120

\* lines 49-61: one setTimeout per element of list, the i-th (from 0) due
\* after i * gapMs
Scheduled(list) == {[url |-> list[i], at |-> (i - 1) * GapMs, i |-> i] : i \in 1..Len(list)}

crawlVars == <<cfgVars, pc, visited, results, pagesVisited, queue, item, fetchLog,
               skipped, outcome, returned, pending, succeeded, other>>

\* the crawler's variables stand still in this specification
GlueInit ==
    /\ site = "A"
    /\ depth = 0
    /\ includeSubdomains = FALSE
    /\ maxPages = 0
    /\ CrawlInit
    /\ other = NoCrawl
    /\ GlueIdle

\* lines 3-12: a message arrives; executeScript is called when it is a
\* collect_gifs message with a tab id
Receive ==
    /\ wpc = "idle"
    /\ \E action \in Actions, tabId \in TabIds :
         IF action # "collect_gifs"
         THEN /\ wpc' = "ignored"
              /\ UNCHANGED responses
         ELSE IF tabId = 0
         THEN /\ wpc' = "settled"
              /\ responses' = Append(responses, [message |-> "No tab id"])
         ELSE /\ wpc' = "injecting"
              /\ UNCHANGED responses
    /\ UNCHANGED <<crawlVars, injected, urls, started, errors, timers, downloads, callbacks>>

\* lines 12-64: executeScript resolves; the URLs are merged and deduped,
\* one timer per URL is set, and the summary is sent
InjectionResolves ==
    /\ wpc = "injecting"
    /\ \E frames \in InjectionResults :
         LET merged == Dedupe(Concat(frames))
         IN  /\ injected' = frames
             /\ urls' = merged
             /\ IF Len(merged) = 0
                THEN /\ responses' = Append(responses,
                            [message |-> "No GIFs found.", found |-> 0,
                             started |-> 0, errors |-> <<>>])
                     /\ UNCHANGED <<started, errors, timers>>
                ELSE /\ errors' = <<>>
                     /\ started' = 0
                     /\ timers' = Scheduled(merged)
                     /\ responses' = Append(responses,
                            [message |-> "Downloads scheduled", found |-> Len(merged),
                             started |-> started', errors |-> errors'])
    /\ wpc' = "settled"
    /\ UNCHANGED <<crawlVars, downloads, callbacks>>

\* lines 65-67: executeScript rejects
InjectionRejects ==
    /\ wpc = "injecting"
    /\ responses' = Append(responses,
            [message |-> "Injection failed", found |-> 0, started |-> 0, errors |-> <<>>])
    /\ wpc' = "settled"
    /\ UNCHANGED <<crawlVars, injected, urls, started, errors, timers, downloads, callbacks>>

\* lines 51-52: the timer due first runs and calls chrome.downloads.download
TimerFires ==
    /\ \E t \in timers :
         /\ \A o \in timers : t.at <= o.at
         /\ timers' = timers \ {t}
         /\ downloads' = Append(downloads, t.url)
         /\ callbacks' = callbacks \cup {t}
    /\ UNCHANGED <<crawlVars, wpc, injected, urls, started, errors, responses>>

\* lines 52-58: the callback of a download runs, with lastError set or not
DownloadCallback ==
    /\ \E t \in callbacks, lastError \in BOOLEAN :
         /\ callbacks' = callbacks \ {t}
         /\ IF lastError
            THEN /\ errors' = Append(errors, [url |-> t.url])
                 /\ UNCHANGED started
            ELSE /\ started' = started + 1
                 /\ UNCHANGED errors
    /\ UNCHANGED <<crawlVars, wpc, injected, urls, timers, downloads, responses>>

GlueNext ==
    \/ Receive
    \/ InjectionResolves
    \/ InjectionRejects
    \/ TimerFires
    \/ DownloadCallback

GlueSpec == GlueInit /\ [][GlueNext]_vars

(***************************************************************************)
(* Properties.                                                             *)
(***************************************************************************)

Range(f) == {f[i] : i \in DOMAIN f}

\* C1: with maxPages >= 1, pagesVisited never exceeds maxPages, no more
\* than maxPages fetches are issued, and a URL enters visited only in a state
\* where pagesVisited < maxPages.
C1_BudgetRespected ==
    /\ [](maxPages >= 1 => pagesVisited <= maxPages /\ Len(fetchLog) <= maxPages)
    /\ [][visited' # visited => pagesVisited < maxPages]_vars

\* the budget is used up while tasks are still queued
C1_Witness ==
    /\ maxPages >= 1
    /\ pc = "loop"
    /\ pagesVisited = maxPages
    /\ Len(fetchLog) = maxPages
    /\ Len(queue) > 0

\* C2: no fragment-stripped URL is fetched twice; the number of fetches
\* equals the size of visited and pagesVisited; a task whose URL is already
\* visited is dropped without a fetch and without counting; nothing is
\* fetched or counted for the start page before the loop.
C2_FetchOnce ==
    /\ [](/\ Len(fetchLog) = Cardinality(visited)
          /\ Len(fetchLog) = pagesVisited
          /\ \A i, j \in 1..Len(fetchLog) :
                i # j => SplitFirst(fetchLog[i].url, "#") # SplitFirst(fetchLog[j].url, "#")
          /\ pc \in {"entry", "seed"} => pagesVisited = 0 /\ fetchLog = <<>>)
    /\ [][(pc = "loop" /\ queue # <<>> /\ Head(queue).url \in visited)
            => (fetchLog' = fetchLog /\ pagesVisited' = pagesVisited)]_vars

\* two pages were fetched and a duplicate task was dropped
C2_Witness ==
    /\ Len(fetchLog) >= 2
    /\ \E t \in skipped :
          Cardinality({k \in 1..Len(fetchLog) : fetchLog[k].url = t.url}) = 1

\* the path of an absolute URL ends in .gif, whatever the letter case
PathEndsInGif(h) == EndsWith(ToLowerCase(ParseAbs(h).path), <<".gif">>)

\* C3: every URL in results has a path that ends in .gif case-insensitively
\* (query string and fragment aside), in every reachable state.
C3_OnlyGifPaths == \A i \in 1..Len(results) : PathEndsInGif(results[i])

\* what the extractor gives on the start document
StartExtract == CollectFromDoc(<<>>, StartDoc(site), Location(site), Location(site))

\* C4: with depth = 0 no fetch is issued, queue and visited stay empty,
\* pagesVisited stays 0, and the crawl returns exactly what the extractor
\* gives on the start document.
C4_DepthZero ==
    depth = 0 =>
        /\ fetchLog = <<>>
        /\ queue = <<>>
        /\ skipped = {}
        /\ visited = {}
        /\ pagesVisited = 0
        /\ pc = "done" => returned = StartExtract

\* a depth-0 crawl of a start page with in-scope links has returned GIFs
C4_Witness ==
    /\ depth = 0
    /\ pc = "done"
    /\ Len(returned) > 0
    /\ StartLinks[site][includeSubdomains] # <<>>

\* C5: every task queued, dequeued or fetched has 1 <= d <= depth; the
\* seeded tasks have d = 1; a fetched page at d adds tasks (all at d + 1)
\* only if d < depth.
C5_DepthBound ==
    /\ [](/\ \A i \in 1..Len(queue) : 1 <= queue[i].d /\ queue[i].d <= depth
          /\ \A i \in 1..Len(fetchLog) : 1 <= fetchLog[i].d /\ fetchLog[i].d <= depth
          /\ \A t \in skipped : 1 <= t.d /\ t.d <= depth
          /\ pc = "fetch" => 1 <= item.d /\ item.d <= depth
          /\ (pc = "loop" /\ fetchLog = <<>>) => \A i \in 1..Len(queue) : queue[i].d = 1)
    /\ [][(pc = "fetch" /\ queue' # queue) =>
            /\ item.d < depth
            /\ Len(queue') > Len(queue)
            /\ SubSeq(queue', 1, Len(queue)) = queue
            /\ \A i \in (Len(queue) + 1)..Len(queue') : queue'[i].d = item.d + 1]_vars

\* a page at the depth limit was fetched with success and links on it, and
\* an earlier page was expanded
C5_Witness ==
    /\ depth = 2
    /\ pc = "loop"
    /\ outcome = "ok"
    /\ Len(fetchLog) >= 2
    /\ fetchLog[Len(fetchLog)].d = depth
    /\ LinksAt(site, includeSubdomains, fetchLog[Len(fetchLog)].url) # <<>>

\* C6: a fetch that fails (rejects, or answers with a non-success status)
\* leaves results, queue, visited and pagesVisited as they are, with the URL
\* in visited, and hands control back to the loop; the URL is never fetched
\* again, visited never losing a URL and a fetch going only to a URL that is
\* not in visited.
C6_FailureAbsorbed ==
    /\ [][(pc = "fetch" /\ outcome' \in {"notok", "throw"}) =>
            /\ results' = results
            /\ queue' = queue
            /\ visited' = visited
            /\ item.url \in visited'
            /\ pagesVisited' = pagesVisited
            /\ pagesVisited >= 1
            /\ pc' = "loop"]_vars
    /\ [][visited \subseteq visited']_vars
    /\ [][fetchLog' # fetchLog => fetchLog'[Len(fetchLog')].url \notin visited]_vars

\* a fetch has failed and the loop goes on to a further page
C6_Witness ==
    /\ outcome \in {"notok", "throw"}
    /\ pc = "fetch"
    /\ Len(fetchLog) >= 2
    /\ DocAt(site, fetchLog[Len(fetchLog) - 1].url) # EmptyDoc

\* C7: every crawl ends: provided each step that can run does run and each
\* fetch settles, pageCrawler reaches its return with the queue empty or the
\* budget used up, and returns the accumulated results.
C7_Terminates ==
    <>(/\ pc = "done"
       /\ returned = results
       /\ (queue = <<>> \/ pagesVisited >= maxPages))

\* a crawl that fetched pages, some of them failing, has returned
C7_Witness ==
    /\ pc = "done"
    /\ Len(fetchLog) >= 2
    /\ outcome \in {"notok", "throw"}
    /\ queue = <<>>
    /\ Len(returned) > 0

\* C8: a configuration with maxPages <= 0 is rejected before the crawl
\* begins: nothing is extracted, seeded or fetched, and nothing is returned.
C8_InvalidConfigRejected ==
    maxPages <= 0 =>
        /\ results = <<>>
        /\ queue = <<>>
        /\ fetchLog = <<>>
        /\ pc # "done"

\* the last two labels of every start hostname
ExampleCom == <<"example", ".", "com">>

\* the scope of section 4.2 of the specification, for the URL text h
Eligible(h) ==
    LET u == ParseAbs(h)
        start == ParseAbs(Location(site))
    IN  \/ /\ u.scheme = start.scheme
           /\ u.hostname = start.hostname
           /\ u.port = start.port
        \/ /\ includeSubdomains
           /\ \/ u.hostname = ExampleCom
              \/ \E k \in 1..Len(u.hostname) :
                    /\ u.hostname[k] = "."
                    /\ SubSeq(u.hostname, k + 1, Len(u.hostname)) = ExampleCom

\* C9: every URL queued or fetched has the start page's origin, or
\* includeSubdomains is set and its hostname is the base domain (the last two
\* labels of the start hostname) or ends with "." and the base domain;
\* without includeSubdomains nothing of another origin is fetched; from
\* www.example.com with includeSubdomains, static.example.com is in scope
\* and example.org is not.
C9_InScope ==
    /\ BaseDomainOf(ParseAbs(Location(site)).hostname) = ExampleCom
    /\ \A i \in 1..Len(queue) : Eligible(queue[i].url)
    /\ \A i \in 1..Len(fetchLog) : Eligible(fetchLog[i].url)
    /\ ~includeSubdomains =>
          \A i \in 1..Len(fetchLog) :
             Origin(ParseAbs(fetchLog[i].url)) = Origin(ParseAbs(Location(site)))
    /\ IsInScope(ParseAbs(STATIC \o <<"/", "s">>), Location("A"), TRUE)
    /\ ~IsInScope(ParseAbs(<<"http://", "example", ".", "org", "/", "o", ".gif">>),
                  Location("A"), TRUE)

\* a page of a subdomain was fetched, and a link of the page to a foreign
\* host and to a host that only ends in the base domain was passed over
C9_Witness ==
    /\ site = "A"
    /\ includeSubdomains
    /\ \E i \in 1..Len(fetchLog) : fetchLog[i].url = STATIC \o <<"/", "s">>

\* the text inside url(...) of a background-image value, quotes removed
UrlBody(m) ==
    LET inner == SubSeq(m, 3, Len(m) - 1)
    IN  IF Len(inner) >= 2 /\ inner[1] \in QuoteToks
        THEN SubSeq(inner, 2, Len(inner) - 1)
        ELSE inner

\* the candidates the three surfaces of a document supply
Candidates(doc) ==
    {doc.images[i].src : i \in {j \in 1..Len(doc.images) : doc.images[j].has}}
    \cup Range(doc.anchors)
    \cup {UrlBody(doc.styles[i]) : i \in 1..Len(doc.styles)}

\* the URLs section 4.1 of the specification has the extractor produce for
\* doc and baseURL
Expected(doc, baseURL) ==
    {Href(ParseURL(c, baseURL)) :
        c \in {x \in Candidates(doc) :
                 /\ ParseURL(x, baseURL).ok
                 /\ ParseURL(x, baseURL).scheme \in HttpSchemes
                 /\ PathEndsInGif(Href(ParseURL(x, baseURL)))}}

\* C10: the extractor adds the resolved absolute URL (query kept) of every
\* candidate of an image src, an anchor href or an inline background-image
\* url(...) that passes the .gif filter, and nothing else.
C10_ThreeSurfaces ==
    pc = "seed" => Range(results) = Expected(StartDoc(site), Location(site))

\* C11: a candidate link that does not parse or is not an http(s) URL is
\* never queued and never fetched, and the links of the start page that do
\* parse, are http(s) and are in scope are all queued by the seeding, whatever
\* other candidates stand before them.
C11_NonHttpExcluded ==
    /\ \A t \in Range(queue) \cup Range(fetchLog) \cup skipped :
          t.url[1] \in HttpSchemes
    /\ (pc = "loop" /\ fetchLog = <<>> /\ skipped = {} /\ depth > 0) =>
          \A i \in 1..Len(StartDoc(site).anchors) :
             LET u == ParseURL(StartDoc(site).anchors[i], Location(site))
             IN  (u.ok /\ u.scheme \in HttpSchemes
                       /\ IsInScope(u, Location(site), includeSubdomains)) =>
                    \E j \in 1..Len(queue) : queue[j].url = Normalize(Href(u))

\* C12: the queue is first-in first-out: a step that takes a task takes the
\* head and leaves the rest in order, and a step that adds tasks adds them
\* at the tail; so the queued depths and the fetched depths are
\* non-decreasing, nothing is fetched at a depth greater than that of a task
\* still queued, and with maxPages = 1 the one page fetched is the first
\* in-scope link of the start page.
C12_FifoBreadthFirst ==
    /\ [](/\ \A i, j \in 1..Len(queue) : i < j => queue[i].d <= queue[j].d
          /\ \A i, j \in 1..Len(fetchLog) : i < j => fetchLog[i].d <= fetchLog[j].d
          /\ \A i \in 1..Len(fetchLog) : \A j \in 1..Len(queue) :
                fetchLog[i].d <= queue[j].d
          /\ (maxPages = 1 /\ fetchLog # <<>>) =>
                fetchLog = <<[url |-> StartLinks[site][includeSubdomains][1], d |-> 1]>>)
    /\ [][queue' # queue =>
            \/ /\ queue # <<>>
               /\ queue' = Tail(queue)
               /\ \/ fetchLog' = Append(fetchLog, Head(queue))
                  \/ fetchLog' = fetchLog /\ Head(queue) \in skipped'
            \/ /\ Len(queue') > Len(queue)
               /\ SubSeq(queue', 1, Len(queue)) = queue
               /\ fetchLog' = fetchLog]_vars

\* a page of depth 2 was fetched right after one of depth 1, with tasks
\* still queued
C12_Witness ==
    /\ queue # <<>>
    /\ \E i \in 1..Len(fetchLog) - 1 : fetchLog[i].d = 1 /\ fetchLog[i + 1].d = 2

\* C15: in every step visited and results keep all they held and
\* pagesVisited does not decrease; pagesVisited grows by exactly 1 in a step
\* that issues a fetch and is unchanged in every other step.
C15_Monotonic ==
    [][/\ visited \subseteq visited'
       /\ Range(results) \subseteq Range(results')
       /\ pagesVisited' >= pagesVisited
       /\ fetchLog' # fetchLog => pagesVisited' = pagesVisited + 1
       /\ fetchLog' = fetchLog => pagesVisited' = pagesVisited]_vars

\* two pages were fetched and a fetched page added to the results of the
\* start page
C15_Witness ==
    /\ pagesVisited >= 2
    /\ Cardinality(visited) >= 2
    /\ Len(results) > Len(StartGifs[site])

\* C16: collectFromDoc run once more on a document it has already run on,
\* with the same base URL, leaves results as it is: this holds for the start
\* document from the seeding on, and for the page last fetched when its
\* response was ok.
C16_Idempotent ==
    /\ pc # "entry" =>
          CollectFromDoc(results, StartDoc(site), Location(site), Location(site)) = results
    /\ (pc \in {"loop", "done"} /\ fetchLog # <<>> /\ outcome = "ok") =>
          LET url == fetchLog[Len(fetchLog)].url
          IN  CollectFromDoc(results, DocAt(site, url), url, Location(site)) = results

\* the page last fetched has a GIF of its own, in a crawl whose start
\* document has GIFs too
C16_Witness ==
    /\ pc = "loop"
    /\ fetchLog # <<>>
    /\ outcome = "ok"
    /\ StartGifs[site] # <<>>
    /\ \E i \in 1..Len(GifsAt(site, fetchLog[Len(fetchLog)].url)) :
          GifsAt(site, fetchLog[Len(fetchLog)].url)[i] \notin Range(StartGifs[site])

\* C13: at most one fetch is outstanding; while one is, the crawler is
\* waiting for it; a task is taken from the queue, and a fetch issued, only
\* when no fetch is outstanding.
C13_OneFetchAtATime ==
    /\ [](/\ Cardinality(pending) <= 1
          /\ pending # {} => pc = "fetch" /\ pending = {item})
    /\ [][Len(queue') < Len(queue) => pending = {}]_vars
    /\ [][fetchLog' # fetchLog => pending = {} /\ Cardinality(pending') = 1]_vars

\* the third fetch is outstanding and tasks wait in the queue
C13_Witness ==
    /\ Cardinality(pending) = 1
    /\ Len(fetchLog) = 3
    /\ queue # <<>>

\* the URLs a chain of at most k links leads to from the start page, every
\* page of the chain before the last fetched with an ok response
RECURSIVE Reach(_)
Reach(k) ==
    IF k = 0 THEN {}
    ELSE IF k = 1 THEN Range(StartLinks[site][includeSubdomains])
    ELSE Reach(k - 1) \cup
         UNION {Range(LinksAt(site, includeSubdomains, p)) :
                   p \in Reach(k - 1) \cap succeeded}

\* the least number of links that leads to u
MinDist(u) == CHOOSE k \in 1..depth : u \in Reach(k) /\ u \notin Reach(k - 1)

\* C17: when the crawl ends with pagesVisited < maxPages, every in-scope
\* URL that at most depth links lead to from the start page, through pages
\* fetched with an ok response, is in visited, and every page fetched was
\* fetched at the least number of links that leads to it.
C17_Complete ==
    (pc = "done" /\ pagesVisited < maxPages) =>
       /\ Reach(depth) \subseteq visited
       /\ \A i \in 1..Len(fetchLog) :
             /\ fetchLog[i].url \in Reach(depth)
             /\ fetchLog[i].d = MinDist(fetchLog[i].url)

\* a crawl of depth 2 ended under its budget; it fetched a page two links
\* away, and dropped a task of depth 2 for a page one link away
C17_Witness ==
    /\ pc = "done"
    /\ pagesVisited < maxPages
    /\ depth = 2
    /\ Reach(2) # Reach(1)
    /\ \E i \in 1..Len(fetchLog) : fetchLog[i].d = 2
    /\ \E t \in skipped : t.d = 2 /\ t.url \in Reach(1)

\* location.href without its fragment: the URL a link to the start page is
\* queued under
StartURL == Normalize(Location(site))

\* C18: nothing is in visited before the first fetch: the seeding adds
\* nothing to it and the start page's URL is not marked; a task dropped as
\* visited has a URL that was fetched exactly once; with depth >= 1, when
\* the start page links to its own URL and the crawl ends under its budget,
\* or that link is the first and maxPages >= 1, the start page's URL is
\* fetched exactly once and counted.
C18_SeedingMarksNothing ==
    /\ [](/\ fetchLog = <<>> => visited = {}
          /\ \A t \in skipped :
                Cardinality({i \in 1..Len(fetchLog) : fetchLog[i].url = t.url}) = 1
          /\ (/\ pc = "done"
              /\ depth >= 1
              /\ StartURL \in Range(StartLinks[site][includeSubdomains])
              /\ \/ pagesVisited < maxPages
                 \/ maxPages >= 1 /\ StartLinks[site][includeSubdomains][1] = StartURL) =>
                /\ Cardinality({i \in 1..Len(fetchLog) : fetchLog[i].url = StartURL}) = 1
                /\ StartURL \in visited
                /\ pagesVisited >= 1)
    /\ [][pc = "seed" => visited' = visited]_vars

\* the start page links to itself: its URL was fetched first, a second page
\* was fetched, and a task for a URL queued twice was dropped
C18_Witness ==
    /\ pc = "done"
    /\ depth >= 1
    /\ fetchLog # <<>>
    /\ fetchLog[1].url = StartURL
    /\ pagesVisited >= 2
    /\ skipped # {}

\* the crawl of an invocation with the arguments of c running alone, the
\* fetches of the URLs in c.succeeded answered ok and all others not: from
\* the queue q, visited vis, counter n, results res and fetches log on
RECURSIVE SoloLoop(_, _, _, _, _, _)
SoloLoop(c, q, vis, n, res, log) ==
    IF ~(Len(q) > 0 /\ n < c.maxPages) THEN [results |-> res, fetchLog |-> log]
    ELSE LET t == Head(q)
             children ==
                 LET links == LinksAt(site, c.includeSubdomains, t.url)
                     Open(l) == l \notin vis \cup {t.url} /\ n + 1 < c.maxPages
                 IN  IF t.d < c.depth THEN Tasks(SelectSeq(links, Open), t.d + 1) ELSE <<>>
         IN  IF t.url \in vis THEN SoloLoop(c, Tail(q), vis, n, res, log)
             ELSE IF t.url \in c.succeeded
             THEN SoloLoop(c, Tail(q) \o children, vis \cup {t.url}, n + 1,
                           Merge(res, GifsAt(site, t.url)), Append(log, t))
             ELSE SoloLoop(c, Tail(q), vis \cup {t.url}, n + 1, res, Append(log, t))

Solo(c) ==
    SoloLoop(c,
             IF c.depth > 0 THEN Tasks(StartLinks[site][c.includeSubdomains], 1) ELSE <<>>,
             {}, 0, StartGifs[site], <<>>)

\* C14: of two invocations taking turns at their fetches, a step of one
\* changes nothing of the other, the one that resumes finds its arguments,
\* visited, results, pagesVisited and queue as it left them, and each one
\* that has finished has issued the fetches and returned the results it
\* would have alone with the same responses.
C14_NoSharedState ==
    /\ [](\A c \in {Context, other} :
             c.pc = "done" =>
                /\ c.fetchLog = Solo(c).fetchLog
                /\ c.returned = Solo(c).results)
    /\ [][other' # other => other' = Context /\ Context' = other]_vars

\* both invocations wait for a fetch, each has fetched before, and one of
\* them has fetched a URL the other has fetched too
C14_Witness ==
    /\ pc = "fetch"
    /\ other.pc = "fetch"
    /\ Len(fetchLog) >= 2
    /\ Len(other.fetchLog) >= 2
    /\ \E i \in 1..Len(fetchLog) : \E j \in 1..Len(other.fetchLog) :
          fetchLog[i].url = other.fetchLog[j].url

\* the set of URLs in the result arrays of the frames
Distinct(frames) == Range(Concat(frames))

\* C19: when the frames returned at least one URL, one summary is sent; it
\* is sent before any download callback has run and before any download is
\* started, and reports started = 0, no errors, and as found the number of
\* distinct URLs returned; it is not sent again or changed by what the
\* downloads do; one download per distinct URL is scheduled, and the
\* downloads are started in the order of the list.
C19_SummaryBeforeDownloads ==
    /\ [](Distinct(injected) # {} =>
            /\ Len(responses) = 1
            /\ responses[1].started = 0
            /\ responses[1].errors = <<>>
            /\ responses[1].found = Cardinality(Distinct(injected))
            /\ Len(urls) = Cardinality(Distinct(injected))
            /\ Range(urls) = Distinct(injected)
            /\ Len(downloads) + Cardinality(timers) = Cardinality(Distinct(injected))
            /\ downloads = SubSeq(urls, 1, Len(downloads)))
    /\ [][(started' # started \/ errors' # errors \/ downloads' # downloads) =>
             responses # <<>> /\ responses' = responses]_vars
    /\ [][responses' # responses =>
             started' = 0 /\ errors' = <<>> /\ downloads' = <<>> /\ callbacks' = {}]_vars

\* two frames returned the same URL; all downloads were started, one
\* succeeded and one failed, after the summary was sent
C19_Witness ==
    /\ Len(Concat(injected)) > Cardinality(Distinct(injected))
    /\ Len(urls) >= 2
    /\ timers = {}
    /\ downloads = urls
    /\ started >= 1
    /\ errors # <<>>
    /\ Len(responses) = 1

====
